---- MODULE Spec2Model ----
(***************************************************************************)
(* FlaskBlog: the HTML sanitizer (html_inspector.strip_invalid_html, a     *)
(* call of bleach.clean with strip=True) and the request handlers of       *)
(* main.py that persist users, posts and comments.                         *)
(*                                                                         *)
(* A string is a sequence of lexemes.  A lexeme is either one of the       *)
(* special characters  < > / = space & " '  or a run of ordinary           *)
(* characters that starts with an ASCII letter ("a", "script", "href",     *)
(* "lt;", ...).  The tokenizer treats a run of ordinary characters the     *)
(* same way character by character, so a run is kept as one lexeme; two    *)
(* adjacent runs form a longer name (<<"a","x">> is the name "ax").        *)
(***************************************************************************)
EXTENDS Integers, Sequences, FiniteSets, TLC

\* ------------------------------------------------------------------------
\* Bounds of the model
\* ------------------------------------------------------------------------
MaxChunks == 4

MaxUsers == 2

MaxPosts == 2

MaxComments == 1

\* ------------------------------------------------------------------------
\* html_inspector.py: the allow-lists
\* ------------------------------------------------------------------------
allowed_tags ==
    {"a", "abbr", "acronym", "address", "b", "br", "div", "dl", "dt",
     "em", "h1", "h2", "h3", "h4", "h5", "h6", "hr", "i", "img",
     "li", "ol", "p", "pre", "q", "s", "small", "strike",
     "span", "sub", "sup", "table", "tbody", "td", "tfoot", "th",
     "thead", "tr", "tt", "u", "ul"}

allowed_attributes(tag) ==
    CASE tag = "a"   -> {"href", "target", "title"}
      [] tag = "img" -> {"src", "alt", "width", "height"}
      [] OTHER       -> {}

\* ------------------------------------------------------------------------
\* Lexemes
\* ------------------------------------------------------------------------
Specials == {"<", ">", "/", "=", " ", "&", "\"", "'"}

\* The tails of the character references the serializer writes.
EntityTails == {"amp;", "lt;", "gt;", "quot;"}

\* End of input, as the tokenizer reads it.
EOF == "EOF"

IsSpace(c) == c = " "

\* Every lexeme that is not a special character starts with an ASCII letter.
IsLetter(c) == c /= EOF /\ c \notin Specials

\* A name (a sequence of lexemes) is in a set of names iff it is one lexeme
\* of the set: no concatenation of two lexemes of the model spells an
\* allow-listed tag or attribute.
NameIn(name, names) == Len(name) = 1 /\ name[1] \in names

RECURSIVE Flatten(_)
Flatten(ss) == IF ss = <<>> THEN <<>> ELSE Head(ss) \o Flatten(Tail(ss))

\* ------------------------------------------------------------------------
\* Tokens
\* ------------------------------------------------------------------------
Tk(type, name, attrs, data, raw) ==
    [type |-> type, name |-> name, attrs |-> attrs, data |-> data, raw |-> raw]

Characters(data) == Tk("Characters", <<>>, <<>>, data, <<>>)

Comment(data, raw) == Tk("Comment", <<>>, <<>>, data, raw)

ParseError(kind, raw) == Tk("ParseError", <<kind>>, <<>>, <<>>, raw)

NoToken == [type |-> "None", name |-> <<>>, attrs |-> <<>>]

\* html5lib emitCurrentToken: of two attributes with one name the first wins.
RECURSIVE DedupAttrs(_, _)
DedupAttrs(attrs, seen) ==
    IF attrs = <<>> THEN <<>>
    ELSE IF Head(attrs).name \in seen THEN DedupAttrs(Tail(attrs), seen)
    ELSE <<Head(attrs)>> \o DedupAttrs(Tail(attrs), seen \cup {Head(attrs).name})

\* ------------------------------------------------------------------------
\* bleach.clean, step 1: the tokenizer (html5lib's HTMLTokenizer with the
\* overrides of bleach's BleachHTMLTokenizer).  A tokenizer state t is
\*   state : the tokenizer state          pos   : index of the next lexeme
\*   cur   : the tag token being built    start : index of the last "<" that
\*   out   : the tokens emitted so far            opened a tag (the stream's
\*                                                memory, get_tag)
\* `tags` is the parser's allow-list: ParserTags(list), or NoParserTags
\* for a parser made with tags=None.
\* ------------------------------------------------------------------------
ParserTags(list) == [none |-> FALSE, tags |-> list]

NoParserTags == [none |-> TRUE, tags |-> {}]

CharAt(s, pos) == IF pos > Len(s) THEN EOF ELSE s[pos]

\* InputStreamWithMemory.get_tag at end of input: everything from the last "<".
GetTag(s, t) == SubSeq(s, t.start, Len(s))

Emit(t, tok, state, pos) ==
    [t EXCEPT !.out = Append(@, tok), !.state = state, !.pos = pos]

Goto(t, state, pos) == [t EXCEPT !.state = state, !.pos = pos]

\* BleachHTMLTokenizer.emitCurrentToken with strip=False: the text of a tag
\* outside the allow-list becomes character data (escaped later).
emitCurrentToken_escape(s, t, tags) ==
    IF ~tags.none /\ ~NameIn(t.cur.name, tags.tags)
    THEN [t EXCEPT !.out = Append(@, Characters(SubSeq(s, t.start, t.pos))),
                   !.state = "data", !.pos = t.pos + 1, !.cur = NoToken]
    ELSE [t EXCEPT !.out = Append(@, Tk(t.cur.type, t.cur.name,
                                         DedupAttrs(t.cur.attrs, {}), <<>>, <<>>)),
                   !.state = "data", !.pos = t.pos + 1, !.cur = NoToken]

\* BleachHTMLTokenizer.emitCurrentToken with strip=True: a tag outside the
\* allow-list becomes an empty Characters token; another tag is emitted.
emitCurrentToken(s, t, tags) ==
    IF ~tags.none /\ ~NameIn(t.cur.name, tags.tags)
    THEN [t EXCEPT !.out = Append(@, Characters(<<>>)),
                   !.state = "data", !.pos = t.pos + 1, !.cur = NoToken]
    ELSE [t EXCEPT !.out = Append(@, Tk(t.cur.type, t.cur.name,
                                         DedupAttrs(t.cur.attrs, {}), <<>>, <<>>)),
                   !.state = "data", !.pos = t.pos + 1, !.cur = NoToken]

\* End of input inside a tag: a ParseError token, and back to the data state.
EofError(s, t, kind) == Emit(t, ParseError(kind, GetTag(s, t)), "data", t.pos)

NewAttr(t, c) ==
    [t EXCEPT !.cur.attrs = Append(@, [name |-> <<c>>, value |-> <<>>]),
              !.state = "attributeName", !.pos = t.pos + 1]

AddToAttrName(t, c) ==
    [t EXCEPT !.cur.attrs[Len(t.cur.attrs)].name = Append(@, c), !.pos = t.pos + 1]

AddToAttrValue(t, c, state) ==
    [t EXCEPT !.cur.attrs[Len(t.cur.attrs)].value = Append(@, c),
              !.state = state, !.pos = t.pos + 1]

\* The index of the first ">" at or after pos, or Len(s) + 1.
RECURSIVE FindGt(_, _)
FindGt(s, pos) ==
    IF pos > Len(s) \/ s[pos] = ">" THEN pos ELSE FindGt(s, pos + 1)

dataState(s, t, c) ==
    CASE c = EOF -> Goto(t, "done", t.pos)
      \* BleachHTMLTokenizer.consumeEntity: "&" is kept as a character
      [] c = "&" -> Emit(t, Characters(<<"&">>), "data", t.pos + 1)
      [] c = "<" -> [t EXCEPT !.state = "tagOpen", !.pos = t.pos + 1, !.start = t.pos]
      [] OTHER   -> Emit(t, Characters(<<c>>), "data", t.pos + 1)

tagOpenState(s, t, c) ==
    CASE c = "/" -> Goto(t, "closeTagOpen", t.pos + 1)
      [] IsLetter(c) ->
            [t EXCEPT !.cur = [type |-> "StartTag", name |-> <<c>>, attrs |-> <<>>],
                      !.state = "tagName", !.pos = t.pos + 1]
      [] c = ">" -> Emit(t, Characters(<<"<", ">">>), "data", t.pos + 1)
      [] OTHER   -> Emit(t, Characters(<<"<">>), "data", t.pos)

closeTagOpenState(s, t, c) ==
    CASE IsLetter(c) ->
            [t EXCEPT !.cur = [type |-> "EndTag", name |-> <<c>>, attrs |-> <<>>],
                      !.state = "tagName", !.pos = t.pos + 1]
      [] c = ">" -> Goto(t, "data", t.pos + 1)
      [] c = EOF -> Emit(t, Characters(<<"<", "/">>), "data", t.pos)
      [] OTHER ->
            Emit(t, ParseError("expected-closing-tag-but-got-char", <<>>),
                 "bogusComment", t.pos)

\* The comment runs to the next ">"; raw is get_tag when the token is read.
bogusCommentState(s, t, c) ==
    LET k == FindGt(s, t.pos)
        last == IF k > Len(s) THEN Len(s) ELSE k
    IN  Emit(t, Comment(SubSeq(s, t.pos, k - 1), SubSeq(s, t.start, last)),
             "data", last + 1)

tagNameState(s, t, c, tags) ==
    CASE IsSpace(c) -> Goto(t, "beforeAttributeName", t.pos + 1)
      [] c = ">" -> emitCurrentToken(s, t, tags)
      [] c = EOF -> EofError(s, t, "eof-in-tag-name")
      [] c = "/" -> Goto(t, "selfClosingStartTag", t.pos + 1)
      [] OTHER   -> [t EXCEPT !.cur.name = Append(@, c), !.pos = t.pos + 1]

beforeAttributeNameState(s, t, c, tags) ==
    CASE IsSpace(c) -> Goto(t, "beforeAttributeName", t.pos + 1)
      [] c = ">" -> emitCurrentToken(s, t, tags)
      [] c = "/" -> Goto(t, "selfClosingStartTag", t.pos + 1)
      [] c = EOF -> EofError(s, t, "expected-attribute-name-but-got-eof")
      [] OTHER   -> NewAttr(t, c)

attributeNameState(s, t, c, tags) ==
    CASE c = "=" -> Goto(t, "beforeAttributeValue", t.pos + 1)
      [] c = ">" -> emitCurrentToken(s, t, tags)
      [] IsSpace(c) -> Goto(t, "afterAttributeName", t.pos + 1)
      [] c = "/" -> Goto(t, "selfClosingStartTag", t.pos + 1)
      [] c = EOF -> EofError(s, t, "eof-in-attribute-name")
      [] OTHER   -> AddToAttrName(t, c)

afterAttributeNameState(s, t, c, tags) ==
    CASE IsSpace(c) -> Goto(t, "afterAttributeName", t.pos + 1)
      [] c = "=" -> Goto(t, "beforeAttributeValue", t.pos + 1)
      [] c = ">" -> emitCurrentToken(s, t, tags)
      [] c = "/" -> Goto(t, "selfClosingStartTag", t.pos + 1)
      [] c = EOF -> EofError(s, t, "expected-end-of-tag-but-got-eof")
      [] OTHER   -> NewAttr(t, c)

beforeAttributeValueState(s, t, c, tags) ==
    CASE IsSpace(c) -> Goto(t, "beforeAttributeValue", t.pos + 1)
      [] c = "\"" -> Goto(t, "attributeValueDoubleQuoted", t.pos + 1)
      [] c = "&" -> Goto(t, "attributeValueUnQuoted", t.pos)
      [] c = "'" -> Goto(t, "attributeValueSingleQuoted", t.pos + 1)
      [] c = ">" -> emitCurrentToken(s, t, tags)
      [] c = EOF -> EofError(s, t, "expected-attribute-value-but-got-eof")
      [] OTHER   -> AddToAttrValue(t, c, "attributeValueUnQuoted")

attributeValueDoubleQuotedState(s, t, c) ==
    CASE c = "\"" -> Goto(t, "afterAttributeValue", t.pos + 1)
      [] c = EOF -> EofError(s, t, "eof-in-attribute-value-double-quote")
      [] OTHER   -> AddToAttrValue(t, c, "attributeValueDoubleQuoted")

attributeValueSingleQuotedState(s, t, c) ==
    CASE c = "'" -> Goto(t, "afterAttributeValue", t.pos + 1)
      [] c = EOF -> EofError(s, t, "eof-in-attribute-value-single-quote")
      [] OTHER   -> AddToAttrValue(t, c, "attributeValueSingleQuoted")

attributeValueUnQuotedState(s, t, c, tags) ==
    CASE IsSpace(c) -> Goto(t, "beforeAttributeName", t.pos + 1)
      [] c = ">" -> emitCurrentToken(s, t, tags)
      [] c = EOF -> EofError(s, t, "eof-in-attribute-value-no-quotes")
      [] OTHER   -> AddToAttrValue(t, c, "attributeValueUnQuoted")

afterAttributeValueState(s, t, c, tags) ==
    CASE IsSpace(c) -> Goto(t, "beforeAttributeName", t.pos + 1)
      [] c = ">" -> emitCurrentToken(s, t, tags)
      [] c = "/" -> Goto(t, "selfClosingStartTag", t.pos + 1)
      [] c = EOF -> EofError(s, t, "unexpected-EOF-after-attribute-value")
      [] OTHER   -> Goto(t, "beforeAttributeName", t.pos)

selfClosingStartTagState(s, t, c, tags) ==
    CASE c = ">" -> emitCurrentToken(s, t, tags)
      [] c = EOF -> EofError(s, t, "unexpected-EOF-after-solidus-in-tag")
      [] OTHER   -> Goto(t, "beforeAttributeName", t.pos)

TokenizerStep(s, t, tags) ==
    LET c == CharAt(s, t.pos) IN
    CASE t.state = "data" -> dataState(s, t, c)
      [] t.state = "tagOpen" -> tagOpenState(s, t, c)
      [] t.state = "closeTagOpen" -> closeTagOpenState(s, t, c)
      [] t.state = "bogusComment" -> bogusCommentState(s, t, c)
      [] t.state = "tagName" -> tagNameState(s, t, c, tags)
      [] t.state = "beforeAttributeName" -> beforeAttributeNameState(s, t, c, tags)
      [] t.state = "attributeName" -> attributeNameState(s, t, c, tags)
      [] t.state = "afterAttributeName" -> afterAttributeNameState(s, t, c, tags)
      [] t.state = "beforeAttributeValue" -> beforeAttributeValueState(s, t, c, tags)
      [] t.state = "attributeValueDoubleQuoted" -> attributeValueDoubleQuotedState(s, t, c)
      [] t.state = "attributeValueSingleQuoted" -> attributeValueSingleQuotedState(s, t, c)
      [] t.state = "attributeValueUnQuoted" -> attributeValueUnQuotedState(s, t, c, tags)
      [] t.state = "afterAttributeValue" -> afterAttributeValueState(s, t, c, tags)
      [] t.state = "selfClosingStartTag" -> selfClosingStartTagState(s, t, c, tags)

RECURSIVE RunTokenizer(_, _, _)
RunTokenizer(s, t, tags) ==
    IF t.state = "done" THEN t.out ELSE RunTokenizer(s, TokenizerStep(s, t, tags), tags)

HTMLTokenizer(s, tags) ==
    RunTokenizer(s, [state |-> "data", pos |-> 1, cur |-> NoToken,
                     start |-> 1, out |-> <<>>], tags)

\* str.strip() of a comment's data.
RECURSIVE Strip(_)
Strip(d) ==
    IF d = <<>> THEN d
    ELSE IF IsSpace(Head(d)) THEN Strip(Tail(d))
    ELSE IF IsSpace(d[Len(d)]) THEN Strip(SubSeq(d, 1, Len(d) - 1))
    ELSE d

EofAsCharacters ==
    {"eof-in-tag-name", "eof-in-attribute-name", "eof-in-attribute-value-no-quotes"}

\* BleachHTMLTokenizer.__iter__: a ParseError is held back until the next
\* token shows what to make of it.
\*  - "expected-closing-tag-but-got-char", then the bogus comment: when the
\*    comment's text is no allow-listed tag, the original text replaces it;
\*  - input that ends inside a tag name, an attribute name or an unquoted
\*    value: the text from the last "<" becomes character data.
\* The parser ignores every ParseError it is handed, so they are dropped here.
RECURSIVE BleachIter(_, _)
BleachIter(toks, tags) ==
    IF toks = <<>> THEN <<>>
    ELSE LET tok == Head(toks) IN
         IF tok.type = "ParseError"
         THEN IF Len(toks) = 1
              THEN IF tok.name[1] \in EofAsCharacters
                   THEN <<Characters(tok.raw)>> ELSE <<>>
              ELSE IF /\ tok.name[1] = "expected-closing-tag-but-got-char"
                      /\ ~tags.none
                      /\ ~NameIn(Strip(toks[2].data), tags.tags)
                   THEN <<Characters(toks[2].raw)>> \o BleachIter(Tail(Tail(toks)), tags)
                   ELSE BleachIter(Tail(toks), tags)
         ELSE <<tok>> \o BleachIter(Tail(toks), tags)

BleachHTMLTokenizer(s, tags) == BleachIter(HTMLTokenizer(s, tags), tags)

\* ------------------------------------------------------------------------
\* bleach.clean, step 2: the tree html5lib builds from the tokens (a
\* fragment, insertion mode "in body") and the tokens its walker yields.
\* Of the allow-listed tags the lexemes spell "a" (a formatting element)
\* and "img" (a void element) only, so the open elements are at most one
\* "a": a second <a> closes the first, </a> closes an open "a" and is
\* ignored otherwise, </img> is ignored, and an "a" left open is closed at
\* the end.  Adjacent character tokens form one text node.
\* ------------------------------------------------------------------------
InsertText(out, data) ==
    IF data = <<>> THEN out
    ELSE IF out /= <<>> /\ out[Len(out)].type = "Characters"
    THEN [out EXCEPT ![Len(out)].data = @ \o data]
    ELSE Append(out, Characters(data))

EndTagA == Tk("EndTag", <<"a">>, <<>>, <<>>, <<>>)

RECURSIVE TreeWalk(_, _, _)
TreeWalk(toks, open, out) ==
    IF toks = <<>> THEN (IF open THEN Append(out, EndTagA) ELSE out)
    ELSE LET tok == Head(toks)
             rest == Tail(toks)
         IN CASE tok.type = "Characters" -> TreeWalk(rest, open, InsertText(out, tok.data))
              [] tok.type = "Comment" -> TreeWalk(rest, open, Append(out, tok))
              [] tok.type = "StartTag" /\ tok.name = <<"a">> ->
                    TreeWalk(rest, TRUE,
                             Append(IF open THEN Append(out, EndTagA) ELSE out, tok))
              [] tok.type = "StartTag" /\ tok.name = <<"img">> ->
                    TreeWalk(rest, open, Append(out, [tok EXCEPT !.type = "EmptyTag"]))
              [] tok.type = "EndTag" /\ tok.name = <<"a">> /\ open ->
                    TreeWalk(rest, FALSE, Append(out, EndTagA))
              [] OTHER -> TreeWalk(rest, open, out)

\* A filter that lets every attribute of a tag through.
attr_filter_any(tag, name) == TRUE

\* ------------------------------------------------------------------------
\* bleach.clean, step 3: BleachSanitizerFilter
\* ------------------------------------------------------------------------
\* attribute_filter_factory for a dict: the attribute must be listed for
\* the tag.  (No value of the model has a URI scheme, so sanitize_uri_value
\* keeps every value it is asked about.)
attr_filter(tag, name) ==
    Len(tag) = 1 /\ NameIn(name, allowed_attributes(tag[1]))

RECURSIVE FilterAttrs(_, _)
FilterAttrs(tag, attrs) ==
    IF attrs = <<>> THEN <<>>
    ELSE (IF attr_filter(tag, Head(attrs).name) THEN <<Head(attrs)>> ELSE <<>>)
         \o FilterAttrs(tag, Tail(attrs))

allow_token(tok) == [tok EXCEPT !.attrs = FilterAttrs(tok.name, tok.attrs)]

Entity(tail) == Tk("Entity", <<tail>>, <<>>, <<>>, <<>>)

\* sanitize_characters: "&name;" is kept as an Entity token ("&amp;" as the
\* character "&"); everything else is character data.
RECURSIVE sanitize_characters(_)
sanitize_characters(data) ==
    IF data = <<>> THEN <<>>
    ELSE IF Head(data) = "&" /\ Len(data) >= 2 /\ data[2] \in EntityTails
    THEN <<(IF data[2] = "amp;" THEN Characters(<<"&">>) ELSE Entity(data[2]))>>
         \o sanitize_characters(Tail(Tail(data)))
    ELSE <<Characters(<<Head(data)>>)>> \o sanitize_characters(Tail(data))

\* sanitize_token, with strip=True and strip_comments=True.
sanitize_token(tok) ==
    CASE tok.type \in {"StartTag", "EndTag", "EmptyTag"} ->
            IF NameIn(tok.name, allowed_tags) THEN <<allow_token(tok)>> ELSE <<>>
      [] tok.type = "Comment" -> <<>>
      [] tok.type = "Characters" -> sanitize_characters(tok.data)
      [] OTHER -> <<tok>>

RECURSIVE BleachSanitizerFilter(_)
BleachSanitizerFilter(toks) ==
    IF toks = <<>> THEN <<>>
    ELSE sanitize_token(Head(toks)) \o BleachSanitizerFilter(Tail(toks))

\* A serializer that writes text as it is.
EscapeText_none(d) == d

\* A serializer that escapes the double quote in text as well.
RECURSIVE EscapeText_quot(_)
EscapeText_quot(d) ==
    IF d = <<>> THEN <<>>
    ELSE (CASE Head(d) = "&" -> <<"&", "amp;">>
            [] Head(d) = "<" -> <<"&", "lt;">>
            [] Head(d) = ">" -> <<"&", "gt;">>
            [] Head(d) = "\"" -> <<"&", "quot;">>
            [] OTHER -> <<Head(d)>>) \o EscapeText_quot(Tail(d))

\* ------------------------------------------------------------------------
\* bleach.clean, step 4: BleachHTMLSerializer
\* ------------------------------------------------------------------------
\* xml.sax.saxutils.escape, on character data.
RECURSIVE EscapeText(_)
EscapeText(d) ==
    IF d = <<>> THEN <<>>
    ELSE (CASE Head(d) = "&" -> <<"&", "amp;">>
            [] Head(d) = "<" -> <<"&", "lt;">>
            [] Head(d) = ">" -> <<"&", "gt;">>
            [] OTHER -> <<Head(d)>>) \o EscapeText(Tail(d))

\* HTMLSerializer on an attribute value: & and < are escaped, and with
\* quote the quote character.
RECURSIVE EscapeAttr(_, _)
EscapeAttr(v, quote) ==
    IF v = <<>> THEN <<>>
    ELSE (CASE Head(v) = "&" -> <<"&", "amp;">>
            [] Head(v) = "<" -> <<"&", "lt;">>
            [] Head(v) = "\"" /\ quote = "\"" -> <<"&", "quot;">>
            [] OTHER -> <<Head(v)>>) \o EscapeAttr(Tail(v), quote)

\* stoken.replace("&amp;", "&")
RECURSIVE UnescapeAmp(_)
UnescapeAmp(v) ==
    IF v = <<>> THEN <<>>
    ELSE IF Head(v) = "&" /\ Len(v) >= 2 /\ v[2] = "amp;"
    THEN <<"&">> \o UnescapeAmp(Tail(Tail(v)))
    ELSE <<Head(v)>> \o UnescapeAmp(Tail(v))

\* escape_base_amp: undo the escaping of "&", then escape the "&" that
\* starts no character reference.
RECURSIVE EscapeBareAmp(_)
EscapeBareAmp(v) ==
    IF v = <<>> THEN <<>>
    ELSE IF Head(v) = "&" /\ Len(v) >= 2 /\ v[2] \in EntityTails
    THEN <<"&", v[2]>> \o EscapeBareAmp(Tail(Tail(v)))
    ELSE IF Head(v) = "&" THEN <<"&", "amp;">> \o EscapeBareAmp(Tail(v))
    ELSE <<Head(v)>> \o EscapeBareAmp(Tail(v))

escape_base_amp(v) == EscapeBareAmp(UnescapeAmp(v))

Has(v, c) == \E i \in 1..Len(v) : v[i] = c

\* use_best_quote_char: a value with a double quote and no single quote is
\* written between single quotes.
QuoteChar(v) == IF Has(v, "\"") /\ ~Has(v, "'") THEN "'" ELSE "\""

\* One attribute, name="value".  BleachHTMLSerializer.serialize passes the
\* token after "=" through escape_base_amp unless it is the double quote
\* (which it yields, to treat the value the same way next); after a single
\* quote the value follows as HTMLSerializer wrote it.
SerializeAttr(attr) ==
    LET q == QuoteChar(attr.value)
        v == EscapeAttr(attr.value, q)
    IN  <<" ">> \o attr.name \o <<"=", q>>
        \o (IF q = "\"" THEN escape_base_amp(v) ELSE v) \o <<q>>

RECURSIVE SerializeAttrs(_)
SerializeAttrs(attrs) ==
    IF attrs = <<>> THEN <<>>
    ELSE SerializeAttr(Head(attrs)) \o SerializeAttrs(Tail(attrs))

SerializeToken(tok) ==
    CASE tok.type \in {"StartTag", "EmptyTag"} ->
            <<"<">> \o tok.name \o SerializeAttrs(tok.attrs) \o <<">">>
      [] tok.type = "EndTag" -> <<"<", "/">> \o tok.name \o <<">">>
      [] tok.type = "Characters" -> EscapeText(tok.data)
      [] tok.type = "Entity" -> <<"&">> \o tok.name
      [] OTHER -> <<>>

RECURSIVE BleachHTMLSerializer(_)
BleachHTMLSerializer(toks) ==
    IF toks = <<>> THEN <<>>
    ELSE SerializeToken(Head(toks)) \o BleachHTMLSerializer(Tail(toks))

\* ------------------------------------------------------------------------
\* html_inspector.strip_invalid_html
\* ------------------------------------------------------------------------
\* bleach.clean(text, tags, attributes, strip=True)
clean(text, tags) ==
    IF text = <<>> THEN <<>>
    ELSE BleachHTMLSerializer(
             BleachSanitizerFilter(
                 TreeWalk(BleachHTMLTokenizer(text, tags), FALSE, <<>>)))

strip_invalid_html(html_code) == clean(html_code, ParserTags(allowed_tags))

\* ========================================================================
\* State
\* ========================================================================
VARIABLES
    \* main.py, the database and the session
    users,          \* the users table: users[i] is the user with id i
    posts,          \* the blog_posts table: a set of rows
    comments,       \* the comments table: a sequence of rows
    current_user,   \* flask_login's current_user of the session: a user id, or Anonymous
    last,           \* the last request and its response
    last_auth,      \* the last call of login_user or logout_user and the form behind it
    \* html_inspector.py, strip_invalid_html applied to one input
    html_code,      \* the input string
    cleaned_html,   \* the result of the last application
    previous,       \* what that application was given
    applied         \* how often strip_invalid_html was applied

vars == <<users, posts, comments, current_user, last, last_auth,
          html_code, cleaned_html, previous, applied>>

appVars == <<users, posts, comments, current_user, last, last_auth>>

sanVars == <<html_code, cleaned_html, previous, applied>>

\* ========================================================================
\* The sanitizer on its own: every input of up to MaxChunks pieces
\* ========================================================================
OpenScript == <<"<", "script", ">">>

CloseScript == <<"<", "/", "script", ">">>

OpenAnchor == <<"<", "a", " ", "href", "=">>

OnClick == <<" ", "onclick", "=", "x", ">">>

CloseAnchor == <<"<", "/", "a", ">">>

Image == <<"<", "img", " ", "src", "=", "x", " ", "onerror", "=", "x", ">">>

\* "</" followed by a space: no end tag for the tokenizer, a bogus comment.
MalformedClose == <<"<", "/", " ", "script", ">">>

Words == {<<"Hello">>, <<"alert(1)">>}

ScriptExample == OpenScript \o <<"alert(1)">> \o CloseScript \o <<"Hello">>

Chunks ==
    {<<"<">>, <<">">>, <<"&">>, <<"\"">>, <<"lt;">>,
     OpenScript, CloseScript, MalformedClose, OpenAnchor, OnClick, CloseAnchor,
     Image} \cup Words

Inputs == {Flatten(cs) : cs \in UNION {[1..k -> Chunks] : k \in 0..MaxChunks}}

NoRequest == [op |-> "none", submit |-> FALSE, post_id |-> 0, email |-> "",
              password |-> "", status |-> "none"]

NoAuth == [kind |-> "none", email |-> "", password |-> ""]

Anonymous == 0

SanInit ==
    /\ html_code \in Inputs
    /\ cleaned_html = html_code
    /\ previous = html_code
    /\ applied = 0
    /\ users = <<>>
    /\ posts = {}
    /\ comments = <<>>
    /\ current_user = Anonymous
    /\ last = NoRequest
    /\ last_auth = NoAuth

\* strip_invalid_html applied to the input, and then to its own result.
Sanitize ==
    /\ applied < 2
    /\ cleaned_html' = strip_invalid_html(cleaned_html)
    /\ previous' = cleaned_html
    /\ applied' = applied + 1
    /\ UNCHANGED <<html_code>>
    /\ UNCHANGED appVars

SanNext == Sanitize

SpecSan == SanInit /\ [][SanNext]_vars

\* ========================================================================
\* main.py: the request handlers
\* ========================================================================
Emails == {"e1", "e2"}

Passwords == {"p1", "p2"}

Titles == {"t1", "t2"}

AnchorExample == OpenAnchor \o <<"Hello">> \o OnClick \o <<"Hello">> \o CloseAnchor

\* What the rich-text editor submits (form.body.data, form.comment_editor.data).
RichTexts == {ScriptExample, AnchorExample}

\* query.get of an id that is not there, and a foreign key that is NULL.
None == 0

\* werkzeug.security: the salted hash of a password, and its check.
generate_password_hash(password) == <<"pbkdf2:sha3_512:10000", password>>

check_password_hash_any(pwhash, password) == TRUE

check_password_hash(pwhash, password) == pwhash = generate_password_hash(password)

UserIds == 1..Len(users)

\* User.query.filter_by(email=...).first(): the id of the user, or None.
UserByEmail(email) ==
    IF \E i \in UserIds : users[i].email = email
    THEN CHOOSE i \in UserIds : users[i].email = email
    ELSE None

\* BlogPost.query.get(post_id): the set of rows with that id (none or one).
PostById(post_id) == {p \in posts : p.id = post_id}

Max(S) == CHOOSE x \in S : \A y \in S : y <= x

\* The primary key sqlite gives a new row: one more than the largest in use.
NextPostId == IF posts = {} THEN 1 ELSE Max({p.id : p \in posts}) + 1

is_authenticated(user) == user /= Anonymous

\* admin_only with the check "is_authenticated" alone.
admin_only_any_user(current_user_in_decorator) ==
    is_authenticated(current_user_in_decorator)

\* admin_only(current_user): current_user is flask_login's proxy, so the
\* wrapper reads the user of the request it runs in.
admin_only(current_user_in_decorator) ==
    is_authenticated(current_user_in_decorator) /\ current_user_in_decorator = 1

\* @login_required outside @admin_only: 401 for an anonymous request (no
\* login view is set), 403 for a user who is not the admin.
Rejection(user) ==
    IF ~is_authenticated(user) THEN "401"
    ELSE IF ~admin_only(user) THEN "403"
    ELSE "ok"

Request(op, submit, post_id, email, password, status) ==
    [op |-> op, submit |-> submit, post_id |-> post_id, email |-> email,
     password |-> password, status |-> status]

\* A row of blog_posts; raw is what the form held (not a column).
BlogPost(id, title, author_id, body, raw) ==
    [id |-> id, title |-> title, author_id |-> author_id, body |-> body, raw |-> raw]

\* Comment(text=form.comment_editor.data, ...): the text stored as submitted.
new_comment_raw(text, author_id, post_id) ==
    [text |-> text, raw |-> text, author_id |-> author_id, post_id |-> post_id]

\* Comment(text=strip_invalid_html(form.comment_editor.data), author=current_user,
\*         parent_post=requested_post); raw is what the form held (not a column).
new_comment(text, author_id, post_id) ==
    [text |-> strip_invalid_html(text), raw |-> text,
     author_id |-> author_id, post_id |-> post_id]

Init ==
    /\ users = <<>>
    /\ posts = {}
    /\ comments = <<>>
    /\ current_user = Anonymous
    /\ last = NoRequest
    /\ last_auth = NoAuth
    /\ html_code = <<>>
    /\ cleaned_html = <<>>
    /\ previous = <<>>
    /\ applied = 0

\* /register.  A user row is its email and the hash of its password; the
\* name column is free text that no handler reads.
register(submit, email, password) ==
    /\ IF ~submit
       THEN /\ last' = Request("register", submit, None, "", "", "render")
            /\ UNCHANGED <<users, current_user, last_auth>>
       ELSE IF UserByEmail(email) /= None
       THEN \* IntegrityError: the email is unique
            /\ last' = Request("register", submit, None, email, password, "redirect:login")
            /\ UNCHANGED <<users, current_user, last_auth>>
       ELSE /\ Len(users) < MaxUsers
            /\ users' = Append(users, [email |-> email,
                                       password |-> generate_password_hash(password)])
            /\ current_user' = Len(users) + 1
            /\ last_auth' = [kind |-> "register", email |-> email, password |-> password]
            /\ last' = Request("register", submit, None, email, password,
                               "redirect:get_all_posts")
    /\ UNCHANGED <<posts, comments>>
    /\ UNCHANGED sanVars

\* /login
login(submit, email, password) ==
    LET user == UserByEmail(email) IN
    /\ IF ~submit
       THEN /\ last' = Request("login", submit, None, "", "", "render")
            /\ UNCHANGED <<current_user, last_auth>>
       ELSE IF user = None
       THEN /\ last' = Request("login", submit, None, email, password, "redirect:login")
            /\ UNCHANGED <<current_user, last_auth>>
       ELSE IF ~check_password_hash(users[user].password, password)
       THEN /\ last' = Request("login", submit, None, email, password, "redirect:login")
            /\ UNCHANGED <<current_user, last_auth>>
       ELSE /\ current_user' = user
            /\ last_auth' = [kind |-> "login", email |-> email, password |-> password]
            /\ last' = Request("login", submit, None, email, password,
                               "redirect:get_all_posts")
    /\ UNCHANGED <<users, posts, comments>>
    /\ UNCHANGED sanVars

\* /logout
logout ==
    /\ current_user' = Anonymous
    /\ last_auth' = [kind |-> "logout", email |-> "", password |-> ""]
    /\ last' = Request("logout", FALSE, None, "", "", "redirect:get_all_posts")
    /\ UNCHANGED <<users, posts, comments>>
    /\ UNCHANGED sanVars

\* /post/<post_id>, with or without a comment submitted
show_post(post_id, submit, text) ==
    LET requested_post == IF PostById(post_id) = {} THEN None ELSE post_id IN
    /\ IF submit /\ ~is_authenticated(current_user)
       THEN /\ last' = Request("show_post", submit, post_id, "", "", "redirect:login")
            /\ UNCHANGED comments
       ELSE IF submit
       THEN /\ Len(comments) < MaxComments
            /\ comments' = Append(comments, new_comment(text, current_user, requested_post))
            /\ last' = Request("show_post", submit, post_id, "", "", "render")
       ELSE /\ last' = Request("show_post", submit, post_id, "", "", "render")
            /\ UNCHANGED comments
    /\ UNCHANGED <<users, posts, current_user, last_auth>>
    /\ UNCHANGED sanVars

\* /new-post
add_new_post(submit, title, body) ==
    /\ IF Rejection(current_user) /= "ok"
       THEN /\ last' = Request("add_new_post", submit, None, "", "", Rejection(current_user))
            /\ UNCHANGED posts
       ELSE IF ~submit
       THEN /\ last' = Request("add_new_post", submit, None, "", "", "render")
            /\ UNCHANGED posts
       ELSE IF \E p \in posts : p.title = title
       THEN \* IntegrityError: the title is unique
            /\ last' = Request("add_new_post", submit, None, "", "", "500")
            /\ UNCHANGED posts
       ELSE /\ NextPostId <= MaxPosts
            /\ posts' = posts \cup {BlogPost(NextPostId, title, current_user,
                                             strip_invalid_html(body), body)}
            /\ last' = Request("add_new_post", submit, None, "", "",
                               "redirect:get_all_posts")
    /\ UNCHANGED <<users, comments, current_user, last_auth>>
    /\ UNCHANGED sanVars

\* /edit-post/<post_id>.  The form is built with author=post.author, so
\* edit_form.author.data is that user (keep_author), or a value the relationship
\* BlogPost.author does not take, and the assignment raises before the commit.
edit_post(post_id, submit, title, keep_author, body) ==
    /\ IF Rejection(current_user) /= "ok"
       THEN /\ last' = Request("edit_post", submit, post_id, "", "", Rejection(current_user))
            /\ UNCHANGED posts
       ELSE IF PostById(post_id) = {}
       THEN \* post is None
            /\ last' = Request("edit_post", submit, post_id, "", "", "500")
            /\ UNCHANGED posts
       ELSE IF ~submit
       THEN /\ last' = Request("edit_post", submit, post_id, "", "", "render")
            /\ UNCHANGED posts
       ELSE IF ~keep_author \/ (\E p \in posts : p.id /= post_id /\ p.title = title)
       THEN \* the assignment of author raises, or IntegrityError at the commit
            /\ last' = Request("edit_post", submit, post_id, "", "", "500")
            /\ UNCHANGED posts
       ELSE /\ posts' = (posts \ PostById(post_id))
                        \cup {BlogPost(post_id, title,
                                       (CHOOSE p \in PostById(post_id) : TRUE).author_id,
                                       strip_invalid_html(body), body)}
            /\ last' = Request("edit_post", submit, post_id, "", "", "redirect:show_post")
    /\ UNCHANGED <<users, comments, current_user, last_auth>>
    /\ UNCHANGED sanVars

\* /delete/<post_id>.  The comments of the post stay, their post_id NULL.
delete_post(post_id) ==
    /\ IF Rejection(current_user) /= "ok"
       THEN /\ last' = Request("delete_post", FALSE, post_id, "", "", Rejection(current_user))
            /\ UNCHANGED <<posts, comments>>
       ELSE IF PostById(post_id) = {}
       THEN \* db.session.delete(None)
            /\ last' = Request("delete_post", FALSE, post_id, "", "", "500")
            /\ UNCHANGED <<posts, comments>>
       ELSE /\ posts' = posts \ PostById(post_id)
            /\ comments' = [i \in 1..Len(comments) |->
                               IF comments[i].post_id = post_id
                               THEN [comments[i] EXCEPT !.post_id = None]
                               ELSE comments[i]]
            /\ last' = Request("delete_post", FALSE, post_id, "", "",
                               "redirect:get_all_posts")
    /\ UNCHANGED <<users, current_user, last_auth>>
    /\ UNCHANGED sanVars

PostIds == 1..(MaxPosts + 1)

Next ==
    \/ \E submit \in BOOLEAN, email \in Emails, password \in Passwords :
           register(submit, email, password)
    \/ \E submit \in BOOLEAN, email \in Emails, password \in Passwords :
           login(submit, email, password)
    \/ logout
    \/ \E post_id \in PostIds, submit \in BOOLEAN, text \in RichTexts :
           show_post(post_id, submit, text)
    \/ \E submit \in BOOLEAN, title \in Titles, body \in RichTexts :
           add_new_post(submit, title, body)
    \/ \E post_id \in PostIds, submit \in BOOLEAN, title \in Titles,
          keep_author \in BOOLEAN, body \in RichTexts :
           edit_post(post_id, submit, title, keep_author, body)
    \/ \E post_id \in PostIds : delete_post(post_id)

Spec == Init /\ [][Next]_vars

\* ========================================================================
\* Properties of strip_invalid_html (checked under SpecSan)
\* ========================================================================
\* The markup an HTML tokenizer finds in a string: the tokens of a
\* tokenizer that has no allow-list.
Markup(s) == HTMLTokenizer(s, NoParserTags)

IsTag(tok) == tok.type \in {"StartTag", "EndTag"}

\* The character data of a string, tag markup left out.
RECURSIVE DataOf(_)
DataOf(toks) ==
    IF toks = <<>> THEN <<>>
    ELSE (IF Head(toks).type = "Characters" THEN Head(toks).data ELSE <<>>)
         \o DataOf(Tail(toks))

\* One pass of resolving character references.
RECURSIVE Resolve(_)
Resolve(d) ==
    IF d = <<>> THEN <<>>
    ELSE IF Head(d) = "&" /\ Len(d) >= 2 /\ d[2] \in EntityTails
    THEN <<(CASE d[2] = "amp;" -> "&" [] d[2] = "lt;" -> "<"
              [] d[2] = "gt;" -> ">" [] OTHER -> "\"")>> \o Resolve(Tail(Tail(d)))
    ELSE <<Head(d)>> \o Resolve(Tail(d))

RECURSIVE FullyResolve(_)
FullyResolve(d) == IF Resolve(d) = d THEN d ELSE FullyResolve(Resolve(d))

\* The text of a string: its character data with the character references
\* resolved until none is left, so that text that was escaped once more is
\* the same text.
VisibleText(s) == FullyResolve(DataOf(Markup(s)))

\* The only "<" of the string open a script tag, "<script" or "</".
OnlyScriptTags(s) ==
    \A i \in 1..Len(s) : s[i] = "<" => (i < Len(s) /\ s[i + 1] \in {"script", "/"})

\* Every tag of the string is complete: the input does not end inside a
\* tag, and no "</" is followed by something that is not a letter.
WellFormedTags(s) ==
    \A i \in 1..Len(Markup(s)) : Markup(s)[i].type \notin {"ParseError", "Comment"}

\* C2: the output of strip_invalid_html holds no tag whose name is outside
\* the allowed-tag list, whatever the input.
C2_OutputTagsAllowed ==
    applied >= 1 =>
        \A i \in 1..Len(Markup(cleaned_html)) :
            LET tok == Markup(cleaned_html)[i] IN
            IsTag(tok) =>
                /\ NameIn(tok.name, allowed_tags)
                /\ tok.name \notin {<<"script">>, <<"style">>, <<"iframe">>, <<"form">>}

\* C2 witness: a script element went in, and its tags are gone.
C2_Witness ==
    /\ applied = 1
    /\ previous = OpenScript \o <<"alert(1)">> \o CloseScript
    /\ cleaned_html = <<"alert(1)">>

\* The attributes the claim allows on a tag.
ClaimedAttributes(tag) ==
    IF tag = <<"a">> THEN {"href", "target", "title"}
    ELSE IF tag = <<"img">> THEN {"src", "alt", "width", "height"}
    ELSE {}

\* C3: in the output of strip_invalid_html an "a" tag carries at most href,
\* target and title, an "img" tag at most src, alt, width and height, and
\* every other tag no attribute.
C3_OutputAttributesAllowed ==
    applied >= 1 =>
        \A i \in 1..Len(Markup(cleaned_html)) :
            LET tok == Markup(cleaned_html)[i] IN
            IsTag(tok) =>
                \A j \in 1..Len(tok.attrs) :
                    NameIn(tok.attrs[j].name, ClaimedAttributes(tok.name))

\* C3 witness: <a href=Hello onclick=x>Hello  became  <a href="Hello">Hello</a>.
C3_Witness ==
    /\ applied = 1
    /\ previous = OpenAnchor \o <<"Hello">> \o OnClick \o <<"Hello">>
    /\ cleaned_html = <<"<", "a", " ", "href", "=", "\"", "Hello", "\"", ">",
                        "Hello", "<", "/", "a", ">">>

\* C5: strip_invalid_html is idempotent: applied to its own result it
\* returns that result.
C5_Idempotent == applied = 2 => cleaned_html = previous

C7_ScriptContentRemoved ==
    (applied >= 1 /\ previous = ScriptExample) => cleaned_html = <<"Hello">>

\* C7 as amended: of a script element the two tags are removed and the
\* content stays as text: <script>v</script>w is sanitized to vw.
C7_ScriptContentKept ==
    applied >= 1 =>
        \A v, w \in Words :
            previous = OpenScript \o v \o CloseScript \o w => cleaned_html = v \o w

\* C7 witness: the example of the claim, sanitized.
C7_Witness ==
    /\ applied = 1
    /\ previous = ScriptExample
    /\ cleaned_html = <<"alert(1)", "Hello">>

\* A string without markup: no tag, no comment, no character reference.
NoMarkup(s) ==
    /\ ~Has(s, "<")
    /\ \A i \in 1..Len(s) - 1 : ~(s[i] = "&" /\ s[i + 1] \in EntityTails)

Sanitized(s) ==
    \A i \in 1..Len(Markup(s)) :
        LET tok == Markup(s)[i] IN
        IsTag(tok) =>
            /\ NameIn(tok.name, allowed_tags)
            /\ \A j \in 1..Len(tok.attrs) :
                   NameIn(tok.attrs[j].name, ClaimedAttributes(tok.name))

\* C1: the body of every stored post and the text of every stored comment
\* is the result of strip_invalid_html on what was submitted, and holds
\* allow-listed tags and attributes only.
C1_StoredTextSanitized ==
    /\ \A p \in posts : p.body = strip_invalid_html(p.raw) /\ Sanitized(p.body)
    /\ \A i \in 1..Len(comments) :
           /\ comments[i].text = strip_invalid_html(comments[i].raw)
           /\ Sanitized(comments[i].text)

\* C1 witness: a post edited to hold the script example and a comment made
\* of the anchor with onclick are stored, both cleaned.
C1_Witness ==
    /\ last.op = "edit_post"
    /\ last.status = "redirect:show_post"
    /\ \E p \in posts : p.raw = ScriptExample /\ p.body = <<"alert(1)", "Hello">>
    /\ Len(comments) = 1
    /\ comments[1].raw = AnchorExample
    /\ comments[1].text /= comments[1].raw

\* C4: a request to add_new_post, edit_post or delete_post made by anyone
\* but the authenticated user with id 1 (the user of that very request) is
\* rejected with 401 or 403 and leaves the posts and comments as they were.
C4_OnlyAdminChangesPosts ==
    [][(last'.op \in {"add_new_post", "edit_post", "delete_post"} /\ current_user /= 1)
          => (/\ posts' = posts
              /\ comments' = comments
              /\ last'.status \in {"401", "403"})]_vars

\* C4 witness: after the admin stored a post in this process, user 2 asked
\* to delete it and got 403.
C4_Witness ==
    /\ last.op = "delete_post"
    /\ last.status = "403"
    /\ current_user = 2
    /\ PostById(last.post_id) /= {}

\* C9: a comment submitted by an unauthenticated requester stores nothing
\* and redirects to login; submitted by an authenticated requester it adds
\* exactly one comment, whose author is the requester and whose parent_post
\* is the post with the requested post_id.
C9_CommentStoredForRequester ==
    [][(last'.op = "show_post" /\ last'.submit) =>
          IF current_user = Anonymous
          THEN comments' = comments /\ last'.status = "redirect:login"
          ELSE /\ Len(comments') = Len(comments) + 1
               /\ SubSeq(comments', 1, Len(comments)) = comments
               /\ comments'[Len(comments')].author_id = current_user
               /\ comments'[Len(comments')].post_id = last'.post_id
               /\ PostById(last'.post_id) /= {}]_vars

\* The session is logged in as a stored user, the one that the last
\* authentication event (a register or a login, no logout) was about.
LoggedInAsLastAuthenticated ==
    current_user /= Anonymous =>
        /\ current_user \in UserIds
        /\ last_auth.kind \in {"register", "login"}
        /\ users[current_user].email = last_auth.email
        /\ users[current_user].password = generate_password_hash(last_auth.password)

\* A register logs in the user it creates; a login with an unknown email or
\* a wrong password, and a register with a used email, change nothing.
FailedAuthenticationChangesNothing ==
    /\ (last'.op = "register" /\ current_user' /= current_user) =>
           /\ Len(users') = Len(users) + 1
           /\ current_user' = Len(users')
           /\ last_auth'.kind = "register"
    /\ (/\ last'.op = "login"
        /\ last'.submit
        /\ \/ UserByEmail(last'.email) = None
           \/ users[UserByEmail(last'.email)].password
                  /= generate_password_hash(last'.password))
           => UNCHANGED <<users, current_user, last_auth>>
    /\ (last'.op = "register" /\ last'.submit /\ UserByEmail(last'.email) /= None)
           => UNCHANGED <<users, current_user, last_auth>>

\* C10: the session is logged in as u only if u is stored and the last
\* authentication event was the register that created u or a login with
\* u's email and password, with no logout since; a failed login and a
\* register with a used email leave the login state and the users unchanged.
C10_LoginState ==
    []LoggedInAsLastAuthenticated /\ [][FailedAuthenticationChangesNothing]_vars

\* C10 witness: logged in as user 1 by a login, and a later login that
\* failed left it so.
C10_Witness ==
    /\ current_user = 1
    /\ last_auth.kind = "login"
    /\ last.op = "login"
    /\ last.submit
    /\ last.status = "redirect:login"
    /\ Len(users) = 2

====
